---- MODULE Spec2Model ----
(***************************************************************************)
(* Model of pycurse (src/src/lib.rs): a process-wide Downloader guarded by *)
(* the DOWNLOADER mutex, one worker thread running                         *)
(* Downloader::thread_runner over a curl Multi handle, and caller threads  *)
(* using CurlDownloader::add_request and CurlDownloader::fetch.            *)
(*                                                                         *)
(* The two crossbeam channels are sequences (unbounded FIFO).  The curl    *)
(* Multi handle is modelled by what the worker observes of it: the set of  *)
(* attached tokens, the per-handle transfer state, and the queue of        *)
(* completion messages that Multi::perform produces and Multi::messages    *)
(* hands to the closure, once each.  Which transfers progress in a perform *)
(* call, with what data, status or error, and in what order completions    *)
(* are reported, is chosen nondeterministically.  A url is the sequence    *)
(* of its bytes; Easy2::url rejects one that holds a NUL byte or is longer *)
(* than libcurl's CURL_MAX_INPUT_LENGTH, and the unwrap() on it panics the *)
(* worker.  The urls checked are short, so the rejected url among them is  *)
(* the one with a NUL byte.  The Multi calls themselves (add2,             *)
(* set_token, perform, wait) do not fail, so the unwrap() calls on them do *)
(* not panic.                                                              *)
(*                                                                         *)
(* add_request and fetch are #[pymethods] that never release the Python    *)
(* interpreter lock, so at most one Python thread is inside either of them *)
(* at any time: the callers are one sequential caller process.             *)
(***************************************************************************)
EXTENDS Integers, Sequences, FiniteSets, TLC

\* ---------------------------------------------------------------- bounds
\* number of add_request calls started under Spec; SpecMore has one more
MaxTasks == 2

\* ------------------------------------------------------------ input sets
\* urls a caller may submit, as bytes: "a", "b" and "a\0b"
Urls == {<<97>>, <<98>>, <<97, 0, 98>>}
\* body bytes the servers send
Bytes == {65}
\* the bodies a transfer may receive: none, or one byte
Bodies == {<<>>} \cup {<<b>> : b \in Bytes}
\* status codes a server may report
HttpStatuses == {200, 404}
\* what Easy2::response_code gives for a transfer that ended Ok: the status
\* received, 0 if none was (always so for a scheme without one, such as
\* file://)
ResponseCodes == {0} \cup HttpStatuses

VARIABLES
    task_queue,           \* task_sender / task_receiver channel contents
    response_queue,       \* response_sender / response_receiver channel contents
    running,              \* Downloader.running
    mutex,                \* DOWNLOADER: [owner, poisoned]
    wpc,                  \* worker thread position
    handles,              \* thread_runner local: token -> Easy2Handle<Collector>
    urls,                 \* thread_runner local: token -> String
    last_token,           \* thread_runner local
    processing_requests,  \* thread_runner local
    multi,                \* thread_runner local: [attached, msgs]
    task_pull,            \* receive used by the latest get_task call
    perform_ret,          \* value the latest multi.perform() returned, -1 before any
    panic_at,             \* where the worker thread panicked, "none" if it did not
    assigned,             \* history: [token, url] of each token assignment, in order
    reported,             \* history: completion messages the Multi produced, in order
    err_active,           \* history: tokens active when a transport error was handled
    cpc,                  \* position of the caller inside the pymethods
    carg,                 \* url argument of the add_request call in progress
    add_err,              \* history: some add_request call did not return Ok
    submitted,            \* history: urls sent on the task channel, in order
    pushed,               \* history: [message, response] per Response sent, in order
    fetched               \* history: ResponsePython values returned by fetch

vars == <<task_queue, response_queue, running, mutex, wpc, handles, urls,
          last_token, processing_requests, multi, task_pull, perform_ret,
          panic_at, assigned, reported, err_active, cpc, carg, add_err,
          submitted, pushed, fetched>>

workerVars == <<wpc, handles, urls, last_token, processing_requests, multi,
                task_pull, perform_ret, panic_at, assigned, reported,
                err_active>>
callerVars == <<cpc, carg, add_err>>

\* -------------------------------------------------------------- helpers
\* all orderings of the finite set S, as sequences
Perms(S) ==
    {s \in [1 .. Cardinality(S) -> S] :
        \A i, j \in 1 .. Cardinality(S) : i # j => s[i] # s[j]}

\* number of occurrences of x in the sequence s
Count(s, x) == Cardinality({i \in 1 .. Len(s) : s[i] = x})

\* a HashMap with no entry
EmptyMap == [t \in {} |-> 0]

\* ------------------------------------------------------- pure functions
\* Collector::write: append the chunk to the buffer
Collector_write(buf, data) == buf \o data

\* Downloader::new mutant: the flag starts false
Downloader_new_stopped ==
    [task_queue |-> <<>>, response_queue |-> <<>>, running |-> FALSE]

\* Downloader::new: both channels empty, running = true
Downloader_new ==
    [task_queue |-> <<>>, response_queue |-> <<>>, running |-> TRUE]

\* Downloader::add_request: send the url on the task channel.  send fails
\* only when every receiver is gone; the Downloader owns task_receiver.
Downloader_add_request(queue, url) ==
    [queue |-> Append(queue, url), result |-> "Ok"]

\* Downloader::get_task mutant: the condition is inverted, the receive
\* blocks while requests are being processed
get_task_inverted(pr, queue) ==
    [mode   |-> IF pr THEN "recv_timeout" ELSE "try_recv",
     result |-> IF queue = <<>> THEN "Err" ELSE "Ok",
     url    |-> IF queue = <<>> THEN <<>> ELSE Head(queue),
     queue  |-> IF queue = <<>> THEN queue ELSE Tail(queue)]

\* Downloader::get_task mutant: the newest task is taken first
get_task_last(pr, queue) ==
    [mode   |-> IF ~pr THEN "recv_timeout" ELSE "try_recv",
     result |-> IF queue = <<>> THEN "Err" ELSE "Ok",
     url    |-> IF queue = <<>> THEN <<>> ELSE queue[Len(queue)],
     queue  |-> IF queue = <<>> THEN queue
                ELSE SubSeq(queue, 1, Len(queue) - 1)]

\* Downloader::get_task: recv_timeout(500 ms) when not processing requests,
\* try_recv otherwise; either way the head of the channel or an error.
get_task(pr, queue) ==
    [mode   |-> IF ~pr THEN "recv_timeout" ELSE "try_recv",
     result |-> IF queue = <<>> THEN "Err" ELSE "Ok",
     url    |-> IF queue = <<>> THEN <<>> ELSE Head(queue),
     queue  |-> IF queue = <<>> THEN queue ELSE Tail(queue)]

\* token assignment mutant: last_token is not advanced
next_token_stuck(token) == token

\* thread_runner: last_token += 1
next_token(token) == token + 1

\* the Response a completion message produces, mutant: url of the first entry
message_response_first_url(message, hs, us) ==
    IF message.result = "Ok"
    THEN [url         |-> us[0],
          status_code |-> hs[message.token].code,
          data        |-> hs[message.token].buf]
    ELSE [url |-> us[0], status_code |-> -1, data |-> <<>>]

\* the multi.messages closure: the Response sent for one completion message
message_response(message, hs, us) ==
    IF message.result = "Ok"
    THEN [url         |-> us[message.token],
          status_code |-> hs[message.token].code,
          data        |-> hs[message.token].buf]
    ELSE [url         |-> us[message.token],
          status_code |-> -1,
          data        |-> <<>>]

\* the Responses multi.messages sends, mutant: in token order
messages_responses_by_token(msgs, hs, us) ==
    LET toks == {msgs[i].token : i \in 1 .. Len(msgs)}
        rank(i) == Cardinality({t \in toks : t < msgs[i].token}) + 1
        at(k) == CHOOSE i \in 1 .. Len(msgs) : rank(i) = k
    IN  [k \in 1 .. Len(msgs) |-> message_response(msgs[at(k)], hs, us)]

\* multi.messages: the closure runs once per pending message, in the order
\* the Multi holds them; the Responses sent, in order
messages_responses(msgs, hs, us) ==
    [i \in 1 .. Len(msgs) |-> message_response(msgs[i], hs, us)]

\* urls.insert mutant: the entry is not stored
urls_insert_skip(us, token, url) == us

\* urls.insert mutant: keyed by the token after the increment
urls_insert_next(us, token, url) == ((token + 1) :> url) @@ us

\* thread_runner: urls.insert(token, url.to_owned())
urls_insert(us, token, url) == (token :> url) @@ us

\* the readiness wait mutant: performed in every iteration
after_messages_always_wait(pr) == "wait"

\* thread_runner: if processing_requests { multi.wait(..) }, where the
\* worker goes after multi.messages
after_messages(pr) == IF pr THEN "wait" ELSE "get_task"

\* the longest string libcurl (7.65 and later) accepts as an option value,
\* in bytes
CURL_MAX_INPUT_LENGTH == 8000000

\* Easy2::url: the url is turned into a C string, which fails when it holds
\* a NUL byte, and handed to curl_easy_setopt(CURLOPT_URL), which fails when
\* it is longer than CURL_MAX_INPUT_LENGTH
request_url(url) ==
    IF \/ Len(url) > CURL_MAX_INPUT_LENGTH
       \/ \E i \in 1 .. Len(url) : url[i] = 0
    THEN "Err" ELSE "Ok"

\* the multi.messages closure panics on a message whose token has no entry
\* in handles (the expect on get_mut) or in urls (the index urls[&token])
closure_panics(message, hs, us) ==
    \/ message.token \notin DOMAIN hs
    \/ message.token \notin DOMAIN us

\* the messages the closure handles before it panics: all of them, or those
\* in front of the first one it panics on
handled_count(msgs, hs, us) ==
    LET bad == {i \in 1 .. Len(msgs) : closure_panics(msgs[i], hs, us)}
    IN  IF bad = {} THEN Len(msgs)
        ELSE (CHOOSE i \in bad : \A j \in bad : i <= j) - 1

\* a UTF-8 continuation byte
utf8_cont(b) == b >= 128 /\ b <= 191

\* the length of the well-formed UTF-8 sequence at the head of data, 0 when
\* there is none: overlong forms, surrogates and code points above
\* U+10FFFF are not well formed
utf8_head(data) ==
    LET n == Len(data)
        b1 == data[1]
        c(i) == n >= i /\ utf8_cont(data[i])
    IN  IF b1 < 128 THEN 1
        ELSE IF b1 >= 194 /\ b1 <= 223
        THEN (IF c(2) THEN 2 ELSE 0)
        ELSE IF b1 >= 224 /\ b1 <= 239
        THEN (IF /\ c(2) /\ c(3)
                 /\ b1 = 224 => data[2] >= 160
                 /\ b1 = 237 => data[2] <= 159
              THEN 3 ELSE 0)
        ELSE IF b1 >= 240 /\ b1 <= 244
        THEN (IF /\ c(2) /\ c(3) /\ c(4)
                 /\ b1 = 240 => data[2] >= 144
                 /\ b1 = 244 => data[2] <= 143
              THEN 4 ELSE 0)
        ELSE 0

\* str::from_utf8 succeeds iff the bytes are a series of well-formed UTF-8
\* sequences
RECURSIVE utf8_valid(_)
utf8_valid(data) ==
    IF data = <<>> THEN TRUE
    ELSE LET k == utf8_head(data)
         IN  k > 0 /\ utf8_valid(SubSeq(data, k + 1, Len(data)))

\* fetch: Response -> ResponsePython (data becomes text of the same bytes)
to_response_python(response) ==
    [url         |-> response.url,
     status_code |-> response.status_code,
     data        |-> [text |-> response.data]]

\* ------------------------------------------------------------------ Init
Init ==
    /\ task_queue = Downloader_new.task_queue
    /\ response_queue = Downloader_new.response_queue
    /\ running = Downloader_new.running
    /\ mutex = [owner |-> "none", poisoned |-> FALSE]
    /\ wpc = "spawned"
    /\ handles = EmptyMap
    /\ urls = EmptyMap
    /\ last_token = 0
    /\ processing_requests = TRUE
    /\ multi = [attached |-> {}, msgs |-> <<>>]
    /\ task_pull = "none"
    /\ perform_ret = -1
    /\ panic_at = "none"
    /\ assigned = <<>>
    /\ reported = <<>>
    /\ err_active = {}
    /\ cpc = "idle"
    /\ carg = <<>>
    /\ add_err = FALSE
    /\ submitted = <<>>
    /\ pushed = <<>>
    /\ fetched = <<>>

\* ---------------------------------------------------------- worker thread
\* pycurse: the spawned thread locks DOWNLOADER and enters thread_runner;
\* the guard lives until thread_runner returns
worker_lock ==
    /\ wpc = "spawned"
    /\ mutex.owner = "none"
    /\ IF mutex.poisoned
       THEN /\ wpc' = "panicked"
            /\ panic_at' = "lock"
            /\ UNCHANGED mutex
       ELSE /\ wpc' = "get_task"
            /\ mutex' = [mutex EXCEPT !.owner = "worker"]
            /\ UNCHANGED panic_at
    /\ UNCHANGED <<task_queue, response_queue, running, handles, urls,
                   last_token, processing_requests, multi, task_pull,
                   perform_ret, assigned, reported, err_active, callerVars,
                   submitted, pushed, fetched>>

\* a fresh Easy2<Collector> added to the Multi: empty buffer; code is the
\* response code the closure reads once the transfer ended Ok, 0 until then
new_handle == [buf |-> <<>>, code |-> 0, state |-> "running"]

\* thread_runner: the while self.running test, then
\* match self.get_task(processing_requests), registering the transfer under
\* the next token on Ok.  The token is taken before request.url(&url), whose
\* unwrap() panics on a url Easy2::url rejects: the thread unwinds, the guard is
\* dropped and DOWNLOADER is poisoned.  When running is false thread_runner
\* returns and the spawned closure drops the guard.
worker_get_task ==
    /\ wpc = "get_task"
    /\ IF ~running
       THEN /\ wpc' = "exited"
            /\ mutex' = [mutex EXCEPT !.owner = "none"]
            /\ UNCHANGED <<task_queue, task_pull, processing_requests,
                           last_token, multi, handles, urls, assigned,
                           panic_at>>
       ELSE LET r == get_task(processing_requests, task_queue)
                token == last_token
            IN  /\ task_pull' = r.mode
                /\ task_queue' = r.queue
                /\ IF r.result = "Ok"
                   THEN /\ processing_requests' = TRUE
                        /\ last_token' = next_token(last_token)
                        /\ assigned' = Append(assigned,
                                          [token |-> token, url |-> r.url])
                        /\ IF request_url(r.url) = "Ok"
                           THEN /\ multi' = [multi EXCEPT
                                               !.attached = @ \cup {token}]
                                /\ handles' = (token :> new_handle) @@ handles
                                /\ urls' = urls_insert(urls, token, r.url)
                                /\ wpc' = "perform"
                                /\ UNCHANGED <<mutex, panic_at>>
                           ELSE /\ wpc' = "panicked"
                                /\ panic_at' = "url"
                                /\ mutex' = [owner |-> "none",
                                             poisoned |-> TRUE]
                                /\ UNCHANGED <<multi, handles, urls>>
                   ELSE /\ wpc' = "perform"
                        /\ UNCHANGED <<processing_requests, last_token,
                                       multi, handles, urls, assigned,
                                       mutex, panic_at>>
    /\ UNCHANGED <<response_queue, running, perform_ret, reported,
                   err_active, callerVars, submitted, pushed, fetched>>

\* the body chunks one perform call may hand to Collector::write for a
\* transfer whose buffer holds buf: what is left of a body that starts
\* with buf, or a part of it
Chunks(buf) ==
    {d \in Bodies : Collector_write(buf, d) \in Bodies}

\* what one perform call can do to the running transfer h: write body data
\* (none, or some) and leave it running, or end it with or without a
\* transport error.  `code` is what response_code() gives when the closure
\* reads it, which it does only for a transfer that ended Ok; it stays 0
\* for the others
Outcomes(h) ==
    {[data |-> d, end |-> e, code |-> 0] :
        d \in Chunks(h.buf), e \in {"running", "err"}}
    \cup {[data |-> d, end |-> "ok", code |-> c] :
            d \in Chunks(h.buf), c \in ResponseCodes}

\* tokens whose transfer the Multi is still driving
active_tokens == {t \in multi.attached : handles[t].state = "running"}

\* one outcome for every transfer in S
RECURSIVE Progs(_)
Progs(S) ==
    IF S = {} THEN {EmptyMap}
    ELSE LET t == CHOOSE u \in S : TRUE
         IN  {(t :> o) @@ p : o \in Outcomes(handles[t]),
                              p \in Progs(S \ {t})}

\* the transfers an assignment of outcomes ends
ended(prog) == {t \in DOMAIN prog : prog[t].end # "running"}

\* the handle after the outcome: body data goes through Collector::write
advance(h, o) ==
    [buf   |-> Collector_write(h.buf, o.data),
     code  |-> o.code,
     state |-> IF o.end = "running" THEN "running" ELSE "done"]

\* multi.perform() with the outcome prog[t] for every active transfer t,
\* completions reported in the order `order`
perform_with(prog, order) ==
    /\ wpc = "perform"
    /\ LET done == ended(prog)
       IN  /\ order \in Perms(done)
           /\ handles' = [t \in DOMAIN handles |->
                            IF t \in active_tokens
                            THEN advance(handles[t], prog[t])
                            ELSE handles[t]]
           /\ LET new == [i \in 1 .. Len(order) |->
                             [token  |-> order[i],
                              result |-> IF prog[order[i]].end = "ok"
                                         THEN "Ok" ELSE "Err"]]
              IN  /\ multi' = [multi EXCEPT !.msgs = @ \o new]
                  /\ reported' = reported \o new
           \* if multi.perform().unwrap() == 0
           /\ perform_ret' = Cardinality(active_tokens \ done)
           /\ processing_requests' =
                 IF Cardinality(active_tokens \ done) = 0
                 THEN FALSE ELSE processing_requests
    /\ wpc' = "messages"
    /\ UNCHANGED <<task_queue, response_queue, running, mutex, urls,
                   last_token, task_pull, panic_at, assigned, err_active,
                   callerVars, submitted, pushed, fetched>>

worker_perform ==
    \E prog \in Progs(active_tokens) :
        \E order \in Perms(ended(prog)) : perform_with(prog, order)

\* multi.messages(closure): every pending message is handed to the closure
\* once, in order, and the closure sends its Response; the closure panics
\* on a message whose token has no entry, after the Responses of the
\* messages in front of it were sent
worker_messages ==
    /\ wpc = "messages"
    /\ multi' = [multi EXCEPT !.msgs = <<>>]
    /\ LET n == handled_count(multi.msgs, handles, urls)
           sent == messages_responses(SubSeq(multi.msgs, 1, n),
                                      handles, urls)
       IN  /\ response_queue' = response_queue \o sent
           /\ pushed' = pushed \o
                 [i \in 1 .. n |->
                    [message |-> multi.msgs[i], response |-> sent[i]]]
           /\ err_active' =
                 IF \E i \in 1 .. n : multi.msgs[i].result = "Err"
                 THEN err_active \cup active_tokens ELSE err_active
           /\ IF n = Len(multi.msgs)
              THEN /\ wpc' = after_messages(processing_requests)
                   /\ UNCHANGED <<mutex, panic_at>>
              ELSE /\ wpc' = "panicked"
                   /\ panic_at' = "lookup"
                   /\ mutex' = [owner |-> "none", poisoned |-> TRUE]
    /\ UNCHANGED <<task_queue, running, handles, urls, last_token,
                   processing_requests, task_pull, perform_ret, assigned,
                   reported, callerVars, submitted, fetched>>

\* if processing_requests { multi.wait(&mut [], 10 ms) }
worker_wait ==
    /\ wpc = "wait"
    /\ wpc' = "get_task"
    /\ UNCHANGED <<task_queue, response_queue, running, mutex, handles, urls,
                   last_token, processing_requests, multi, task_pull,
                   perform_ret, panic_at, assigned, reported, err_active,
                   callerVars, submitted, pushed, fetched>>

\* ----------------------------------------------------------- the caller
\* add_request calls started so far
StartedAdds == Len(submitted) + (IF cpc = "add_lock" THEN 1 ELSE 0)

\* a caller enters CurlDownloader::add_request(url) and waits for DOWNLOADER
add_request_call(url) ==
    /\ cpc = "idle"
    /\ StartedAdds < MaxTasks
    /\ cpc' = "add_lock"
    /\ carg' = url
    /\ UNCHANGED add_err
    /\ UNCHANGED <<task_queue, response_queue, running, mutex, workerVars,
                   submitted, pushed, fetched>>

\* a caller enters CurlDownloader::add_request(url) once more after MaxTasks
\* calls were started
add_request_call_more(url) ==
    /\ cpc = "idle"
    /\ StartedAdds = MaxTasks
    /\ cpc' = "add_lock"
    /\ carg' = url
    /\ UNCHANGED add_err
    /\ UNCHANGED <<task_queue, response_queue, running, mutex, workerVars,
                   submitted, pushed, fetched>>

\* CurlDownloader::add_request: lock, Downloader::add_request, unlock
add_request ==
    /\ cpc = "add_lock"
    /\ mutex.owner = "none"
    /\ cpc' = "idle"
    /\ carg' = <<>>
    /\ IF mutex.poisoned
       THEN /\ add_err' = TRUE
            /\ UNCHANGED <<task_queue, submitted>>
       ELSE LET r == Downloader_add_request(task_queue, carg)
            IN  /\ task_queue' = r.queue
                /\ add_err' = (add_err \/ r.result # "Ok")
                /\ submitted' = Append(submitted, carg)
    /\ UNCHANGED <<response_queue, running, mutex, workerVars, pushed,
                   fetched>>

\* a caller enters CurlDownloader::fetch(timeout) and waits for DOWNLOADER
fetch_call ==
    /\ cpc = "idle"
    /\ cpc' = "fetch_lock"
    /\ UNCHANGED <<task_queue, response_queue, running, mutex, workerVars,
                   carg, add_err, submitted, pushed, fetched>>

\* fetch: DOWNLOADER.lock().unwrap(), response_receiver.clone(); the guard
\* lives until fetch returns
fetch_lock ==
    /\ cpc = "fetch_lock"
    /\ mutex.owner = "none"
    /\ IF mutex.poisoned
       THEN /\ cpc' = "idle"
            /\ UNCHANGED mutex
       ELSE /\ cpc' = "fetch_recv"
            /\ mutex' = [mutex EXCEPT !.owner = "caller"]
    /\ UNCHANGED <<task_queue, response_queue, running, workerVars, carg,
                   add_err, submitted, pushed, fetched>>

\* fetch: receiver.recv_timeout(timeout) and the return; Ok takes the head
\* of the response channel, the timeout returns None
fetch_recv ==
    /\ cpc = "fetch_recv"
    /\ cpc' = "idle"
    /\ IF response_queue = <<>>
       THEN /\ mutex' = [mutex EXCEPT !.owner = "none"]
            /\ UNCHANGED <<response_queue, fetched>>
       ELSE /\ response_queue' = Tail(response_queue)
            /\ IF utf8_valid(Head(response_queue).data)
               THEN /\ fetched' = Append(fetched,
                                    to_response_python(Head(response_queue)))
                    /\ mutex' = [mutex EXCEPT !.owner = "none"]
               ELSE /\ mutex' = [owner |-> "none", poisoned |-> TRUE]
                    /\ UNCHANGED fetched
    /\ UNCHANGED <<task_queue, running, workerVars, carg, add_err, submitted,
                   pushed>>

\* ------------------------------------------------------------------ Next
Next ==
    \/ worker_lock
    \/ worker_get_task
    \/ worker_perform
    \/ worker_messages
    \/ worker_wait
    \/ \E url \in Urls : add_request_call(url)
    \/ add_request
    \/ fetch_call
    \/ fetch_lock
    \/ fetch_recv

Spec == Init /\ [][Next]_vars

\* Fairness the scheduling provides: every thread that can take a step
\* eventually takes it, a thread waiting for DOWNLOADER gets it if it is
\* free again and again, every transfer eventually completes or fails, and
\* the caller keeps polling.
transfer_ends(t) ==
    \E prog \in Progs(active_tokens) :
        /\ t \in ended(prog)
        /\ \E order \in Perms(ended(prog)) : perform_with(prog, order)

Fairness ==
    /\ SF_vars(worker_lock)
    /\ WF_vars(worker_get_task)
    /\ WF_vars(worker_perform)
    /\ WF_vars(worker_messages)
    /\ WF_vars(worker_wait)
    /\ \A t \in 0 .. MaxTasks : SF_vars(transfer_ends(t))
    /\ SF_vars(add_request)
    /\ WF_vars(fetch_call)
    /\ SF_vars(fetch_lock)
    /\ WF_vars(fetch_recv)

FairSpec == Spec /\ Fairness

\* the same program with room for one more add_request call
NextMore ==
    \/ Next
    \/ \E url \in Urls : add_request_call_more(url)

SpecMore == Init /\ [][NextMore]_vars

FairSpecMore == SpecMore /\ Fairness

\* ---------------------------------------------------------------- claims
\* urls the worker has pulled from the task channel so far
PulledCount == Len(submitted) - Len(task_queue)

\* urls of the Responses sent so far, in order
PushedUrls == [i \in 1 .. Len(pushed) |-> pushed[i].response.url]

\* the thread is inside a blocking wait: the worker in the 500 ms
\* recv_timeout of get_task or in the 10 ms multi.wait, the caller in the
\* recv_timeout of fetch
worker_blocking ==
    \/ wpc = "get_task" /\ running /\ ~processing_requests
    \/ wpc = "wait"
caller_blocking == cpc = "fetch_recv"

\* C1: provided the worker thread has started and the caller keeps calling
\* fetch, every url submitted through add_request eventually has a Response
\* on the response channel and eventually returned by a fetch call (the
\* n-th submission is eventually matched by n Responses sent and n returned).
C1_SubmitLeadsToFetchedResponse ==
    (/\ <>(wpc # "spawned")
     /\ []<>(cpc \in {"fetch_lock", "fetch_recv"}))
    => \A n \in 1 .. MaxTasks :
          (Len(submitted) >= n) ~> (Len(pushed) >= n /\ Len(fetched) >= n)

\* C2: the worker sends at most one Response per registered token, only for
\* a token whose transfer the multiplexer has reported completed, and never
\* more Responses than urls pulled from the task channel.
C2_NoDuplicateNoPhantom ==
    /\ \A i, j \in 1 .. Len(pushed) :
          i # j => pushed[i].message.token # pushed[j].message.token
    /\ \A i \in 1 .. Len(pushed) :
          /\ pushed[i].message.token \in DOMAIN handles
          /\ pushed[i].message.token \in multi.attached
          /\ handles[pushed[i].message.token].state = "done"
    /\ Len(pushed) <= PulledCount

\* C2 witness: two transfers were registered and each got its Response
C2_Witness ==
    /\ Len(pushed) = 2
    /\ PulledCount = 2
    /\ pushed[1].message.token # pushed[2].message.token

\* C3: every Response sent carries the url of the request registered under
\* the completing token (the (token+1)-th url submitted), and the multiset
\* of Response urls is a sub-multiset of the submitted urls.
C3_UrlCorrelation ==
    /\ \A i \in 1 .. Len(pushed) :
          /\ pushed[i].message.token + 1 <= Len(submitted)
          /\ pushed[i].response.url = submitted[pushed[i].message.token + 1]
    /\ \A u \in Urls : Count(PushedUrls, u) <= Count(submitted, u)

\* C3 witness: two transfers with different urls were active together and
\* completed in the reverse of their submission order
C3_Witness ==
    /\ Len(pushed) = 2
    /\ pushed[1].message.token = 1
    /\ pushed[2].message.token = 0
    /\ submitted[1] # submitted[2]
    /\ pushed[1].response.url = submitted[2]

\* C4: a completion with a transport error gives status_code -1 and empty
\* data; a successful completion gives the HTTP status the server reported,
\* unchanged, and the accumulated body buffer; nothing else is ever sent.
C4_StatusMapping ==
    \A i \in 1 .. Len(pushed) :
        LET m == pushed[i].message
            r == pushed[i].response
        IN  /\ m.result \in {"Ok", "Err"}
            /\ m.result = "Err" => r.status_code = -1 /\ r.data = <<>>
            /\ m.result = "Ok" =>
                  /\ r.status_code = handles[m.token].code
                  /\ r.status_code \in HttpStatuses
                  /\ r.data = handles[m.token].buf

\* C5: a fetch call made while the response channel is empty returns; it
\* never blocks indefinitely, whatever the worker is doing.
C5_FetchReturns ==
    (cpc = "fetch_lock" /\ response_queue = <<>>) ~> (cpc = "idle")

\* C6: provided the caller keeps calling fetch, every Response the worker
\* sends is returned by exactly one fetch call and none is discarded: the
\* n-th Response sent eventually is the n-th returned, and the Responses
\* sent are those returned plus those still queued.
C6_PushedReturnedOnce ==
    ([]<>(cpc \in {"fetch_lock", "fetch_recv"}))
    => \A n \in 1 .. MaxTasks :
          (Len(pushed) >= n) ~>
              /\ Len(fetched) >= n
              /\ fetched[n] = to_response_python(pushed[n].response)
              /\ Len(fetched) + Len(response_queue) = Len(pushed)

\* C7: an add_request call that runs appends exactly its url to the tail of
\* the task channel and returns success.
C7_SubmitAppends ==
    [][(cpc = "add_lock" /\ cpc' = "idle") =>
          /\ task_queue' = Append(task_queue, carg)
          /\ ~add_err']_vars

\* C8: no thread holds the DOWNLOADER mutex while it is in a blocking wait
\* (the worker's 500 ms task pull and 10 ms readiness wait, the caller's
\* fetch wait on the response channel).
C8_NoLockAcrossBlockingWait ==
    /\ worker_blocking => mutex.owner # "worker"
    /\ caller_blocking => mutex.owner # "caller"

\* C9: every add_request call that a caller starts eventually returns.
C9_AddRequestReturns == (cpc = "add_lock") ~> (cpc = "idle")

\* C10: whenever every registered transfer has completed and its completion
\* has been handled, the handles and urls maps are empty and no handle is
\* attached to the multiplexer.
C10_NoTableLeak ==
    (/\ multi.msgs = <<>>
     /\ \A t \in 0 .. (last_token - 1) :
           \E i \in 1 .. Len(pushed) : pushed[i].message.token = t)
    => /\ DOMAIN handles = {}
       /\ DOMAIN urls = {}
       /\ multi.attached = {}

\* tokens under which a transfer was registered: those assigned to a url
\* that Easy2::url accepted
RegisteredTokens ==
    {assigned[i].token :
        i \in {k \in 1 .. Len(assigned) : request_url(assigned[k].url) = "Ok"}}

\* C11: tokens are assigned in strictly increasing order, one per pulled
\* task, the next token is larger than every token assigned so far, and no
\* two entries of handles or urls and no two attached handles share a
\* token (each map and the multiplexer hold exactly the tokens under which
\* a transfer was registered, one entry per registration).
C11_TokenUniqueness ==
    /\ Len(assigned) = PulledCount
    /\ \A i, j \in 1 .. Len(assigned) :
          i < j => assigned[i].token < assigned[j].token
    /\ \A i \in 1 .. Len(assigned) : assigned[i].token < last_token
    /\ DOMAIN handles = RegisteredTokens
    /\ DOMAIN urls = RegisteredTokens
    /\ multi.attached = RegisteredTokens
    /\ Cardinality(RegisteredTokens) =
          Cardinality({k \in 1 .. Len(assigned) :
                         request_url(assigned[k].url) = "Ok"})

\* C11 witness: a second token was assigned while the transfer of the first
\* was still outstanding
C11_Witness ==
    /\ Len(assigned) = 2
    /\ active_tokens = {assigned[1].token, assigned[2].token}
    /\ assigned[1].token # assigned[2].token

\* C13: the key set of handles equals the key set of urls and equals the
\* set of tokens attached to the multiplexer, at the head of every loop
\* iteration and at every other position of the worker.
C13_TablePairing ==
    /\ DOMAIN handles = DOMAIN urls
    /\ multi.attached = DOMAIN handles

\* C13 witness: at the loop head with two transfers registered, one of them
\* completed and its Response sent, the other still running
C13_Witness ==
    /\ wpc = "get_task"
    /\ DOMAIN urls = {0, 1}
    /\ Len(pushed) = 1
    /\ Cardinality(active_tokens) = 1

\* C14: in an iteration that follows a multi.perform() call, the task pull
\* is the 500 ms recv_timeout iff that call returned 0 and try_recv
\* otherwise; the worker never enters the blocking pull while a transfer
\* is active.
C14_ModeTransition ==
    /\ (wpc = "perform" /\ perform_ret # -1) =>
          (task_pull = "recv_timeout" <=> perform_ret = 0)
    /\ (wpc = "get_task" /\ running /\ ~processing_requests) =>
          active_tokens = {}

\* C14 witness: perform returned 0 after the first transfer ended, and the
\* blocking pull of the next iteration took the second task
C14_Witness ==
    /\ wpc = "perform"
    /\ perform_ret = 0
    /\ task_pull = "recv_timeout"
    /\ Len(assigned) = 2
    /\ Cardinality(active_tokens) = 1

\* C15: after multi.messages the worker performs the 10 ms readiness wait
\* iff the multi.perform() call of the same iteration returned at least 1.
C15_ReadinessWait ==
    [][(wpc = "messages" /\ wpc' \in {"wait", "get_task"}) =>
          (wpc' = "wait" <=> perform_ret > 0)]_vars

\* C15 witness: the worker is in the readiness wait of an iteration whose
\* perform call completed one transfer and left one active
C15_Witness ==
    /\ wpc = "wait"
    /\ perform_ret = 1
    /\ Len(pushed) = 1
    /\ Len(assigned) = 2

\* C16: tasks are pulled and given their tokens in the order they were sent
\* on the task channel, with increasing tokens, and no worker step pulls
\* more than one task; a pull happens only in the get_task step of an
\* iteration, and a registered url is registered under its token.
C16_FifoIntake ==
    /\ [](/\ Len(assigned) + Len(task_queue) = Len(submitted)
          /\ \A i \in 1 .. Len(assigned) : assigned[i].url = submitted[i]
          /\ \A i \in 1 .. Len(task_queue) :
                task_queue[i] = submitted[Len(assigned) + i]
          /\ \A i, j \in 1 .. Len(assigned) :
                i < j => assigned[i].token < assigned[j].token
          /\ \A t \in DOMAIN urls :
                \E i \in 1 .. Len(assigned) :
                    assigned[i] = [token |-> t, url |-> urls[t]])
    /\ [][/\ Len(assigned') <= Len(assigned) + 1
          /\ Len(assigned') > Len(assigned) =>
                (wpc = "get_task" /\ wpc' \in {"perform", "panicked"})]_vars

\* C16 witness: two different urls were submitted and both registered, the
\* first submitted under the smaller token
C16_Witness ==
    /\ Len(assigned) = 2
    /\ DOMAIN urls = {0, 1}
    /\ submitted[1] # submitted[2]
    /\ assigned[1].url = submitted[1]
    /\ assigned[2].url = submitted[2]
    /\ assigned[1].token < assigned[2].token

\* some pending completion message reports a transport error
ErrPending == \E i \in 1 .. Len(multi.msgs) : multi.msgs[i].result = "Err"

\* exactly one Response was sent for transfer t
OneResponse(t) ==
    Cardinality({i \in 1 .. Len(pushed) : pushed[i].message.token = t}) = 1

\* C12: when multi.messages handles a transport error, exactly one Response
\* with status_code -1 and empty data is sent for that transfer (one
\* Response per pending message, in place), every handles and urls entry
\* and the attached set are unchanged, and the worker goes on with its
\* loop; every transfer whose completion has been handled has exactly one
\* Response of its own, and every other transfer that was active when the
\* error was handled eventually gets its own Response: the worker never
\* stops while such a transfer is without its Response.
C12_FailureIsolation ==
    /\ [][(wpc = "messages" /\ wpc' # "messages" /\ ErrPending) =>
            /\ wpc' \in {"wait", "get_task"}
            /\ handles' = handles
            /\ urls' = urls
            /\ multi'.attached = multi.attached
            /\ Len(response_queue') =
                  Len(response_queue) + Len(multi.msgs)
            /\ \A i \in 1 .. Len(multi.msgs) :
                  LET r == response_queue'[Len(response_queue) + i]
                  IN  /\ r.url = urls[multi.msgs[i].token]
                      /\ multi.msgs[i].result = "Err" <=>
                            r.status_code = -1
                      /\ multi.msgs[i].result = "Err" => r.data = <<>>]_vars
    /\ [](\A t \in DOMAIN handles :
            (/\ handles[t].state = "done"
             /\ \A i \in 1 .. Len(multi.msgs) : multi.msgs[i].token # t)
            => OneResponse(t))
    /\ [](wpc \in {"panicked", "exited"} =>
             \A t \in err_active : OneResponse(t))
    /\ \A t \in 0 .. MaxTasks :
          (t \in err_active) ~> OneResponse(t)

\* C17: multi.messages drains every pending completion message within the
\* iteration, and the Responses on the response channel are those of the
\* completions the multiplexer reported, in exactly the reported order.
C17_CompletionOrder ==
    /\ wpc # "messages" => multi.msgs = <<>>
    /\ Len(fetched) + Len(response_queue) + Len(multi.msgs) = Len(reported)
    /\ \A i \in 1 .. Len(response_queue) :
          LET m == reported[Len(fetched) + i]
              r == response_queue[i]
          IN  /\ r.url = submitted[m.token + 1]
              /\ m.result = "Err" <=> r.status_code = -1
              /\ m.result = "Ok" =>
                    /\ r.status_code = handles[m.token].code
                    /\ r.data = handles[m.token].buf

\* C17 witness: the transfer submitted second was reported first, and the
\* response channel holds the two Responses in that order
C17_Witness ==
    /\ Len(reported) = 2
    /\ reported[1].token = 1
    /\ reported[2].token = 0
    /\ Len(response_queue) = 2
    /\ response_queue[1].url = submitted[2]
    /\ response_queue[2].url = submitted[1]
    /\ submitted[1] # submitted[2]

\* C18: the running flag is true from construction on, whatever add_request
\* and fetch calls are made, and the worker never leaves its loop through
\* the running test.
C18_RunningFlag ==
    /\ running = TRUE
    /\ wpc # "exited"

\* C18 witness: add_request calls have run, a fetch call is in progress,
\* and the worker is at the running test again after sending a Response
C18_Witness ==
    /\ running
    /\ wpc = "get_task"
    /\ Len(submitted) = 2
    /\ Len(pushed) >= 1
    /\ cpc = "fetch_lock"

\* the closure would panic on some pending completion message
closure_panics_any ==
    \E i \in 1 .. Len(multi.msgs) : closure_panics(multi.msgs[i], handles, urls)

\* C19: every completion message the multiplexer holds for the closure has
\* its token in handles and in urls (and attached), so the closure's
\* lookups never panic: the worker never panics in multi.messages, and the
\* mutex is poisoned only by a panic elsewhere.
C19_LookupNeverFails ==
    /\ \A i \in 1 .. Len(multi.msgs) :
          /\ multi.msgs[i].token \in DOMAIN handles
          /\ multi.msgs[i].token \in DOMAIN urls
          /\ multi.msgs[i].token \in multi.attached
    /\ ~closure_panics_any
    /\ panic_at # "lookup"
    /\ mutex.poisoned => panic_at \in {"url", "lock"}

\* C19 witness: two completion messages are about to be handed to the
\* closure
C19_Witness ==
    /\ wpc = "messages"
    /\ Len(multi.msgs) = 2
    /\ multi.msgs[1].token # multi.msgs[2].token

====
